---- MODULE Spec2Model ----
(***************************************************************************)
(* Model of custom_components/enpal/sensor.py: the setup-time field        *)
(* discovery (async_setup_entry) and the per-entity poll                    *)
(* (EnpalSensor.async_update).                                              *)
(*                                                                          *)
(* Numbers read from the database are integers counting thousandths; the    *)
(* stored native value counts hundredths (round(float(value), 2)).          *)
(* Instants are integer ticks of UTC time; TicksPerDay ticks make one day.  *)
(***************************************************************************)
EXTENDS Integers, Sequences, FiniteSets, Bags, TLC

VARIABLES
    hassData,     \* hass.data[DOMAIN][entry_id]: the stored configuration mapping
    options,      \* config_entry.options
    setupPc,      \* position of the async_setup_entry task of each entry
    setupRun,     \* what the running / last async_setup_entry call has done
    registry,     \* the host's entity registry: a bag of registry entries
    entities,     \* the entities the platform holds for each entry
    updPc,        \* position of the async_update task of each entity
    result,       \* how the last completed async_update of each entity ended
    clock,        \* the current instant, UTC ticks
    tz            \* offset of the host's local time from UTC, ticks

vars == <<hassData, options, setupPc, setupRun, registry, entities, updPc,
          result, clock, tz>>

setupVars == <<hassData, options, setupPc, setupRun, registry>>
updateVars == <<updPc, result, clock>>

(***************************************************************************)
(* Bounds of the model                                                      *)
(***************************************************************************)
MaxTables == 3       \* tables in one discovery query result
MaxClock == 2        \* last instant the clock reaches
TicksPerDay == 2     \* granularity of the clock

\* the configuration entries of this integration: one is enough, the registry
\* also holds an entry of another configuration entry (ForeignEntry)
Entries == {"entry1"}

None == << >>
Some(x) == <<x>>

(***************************************************************************)
(* FIELD_MAP                                                                *)
(***************************************************************************)
EnpalSensorConfig(icon, name, device_class, unit) ==
    [icon |-> icon, name |-> name, device_class |-> device_class, unit |-> unit]

FIELD_MAP ==
    "Power.DC.Total" :> EnpalSensorConfig("mdi:solar-power", "Enpal Solar Production Power", "power", "W")
 @@ "Power.House.Total" :> EnpalSensorConfig("mdi:home-lightning-bolt", "Enpal Power House Total", "power", "W")
 @@ "Power.External.Total" :> EnpalSensorConfig("mdi:home-lightning-bolt", "Enpal Power External Total", "power", "W")
 @@ "Energy.Consumption.Total.Day" :> EnpalSensorConfig("mdi:home-lightning-bolt", "Enpal Energy Consumption", "energy", "kWh")
 @@ "Energy.External.Total.Out.Day" :> EnpalSensorConfig("mdi:transmission-tower-export", "Enpal Energy External Out Day", "energy", "kWh")
 @@ "Energy.External.Total.In.Day" :> EnpalSensorConfig("mdi:transmission-tower-import", "Enpal Energy External In Day", "energy", "kWh")
 @@ "Energy.Production.Total.Day" :> EnpalSensorConfig("mdi:solar-power-variant", "Enpal Production Day", "energy", "kWh")
 @@ "Voltage.Phase.A" :> EnpalSensorConfig("mdi:lightning-bolt", "Enpal Voltage Phase A", "voltage", "V")
 @@ "Current.Phase.A" :> EnpalSensorConfig("mdi:lightning-bolt", "Enpal Ampere Phase A", "current", "A")
 @@ "Power.AC.Phase.A" :> EnpalSensorConfig("mdi:lightning-bolt", "Enpal Power Phase A", "power", "W")
 @@ "Voltage.Phase.B" :> EnpalSensorConfig("mdi:lightning-bolt", "Enpal Voltage Phase B", "voltage", "V")
 @@ "Current.Phase.B" :> EnpalSensorConfig("mdi:lightning-bolt", "Enpal Ampere Phase B", "current", "A")
 @@ "Power.AC.Phase.B" :> EnpalSensorConfig("mdi:lightning-bolt", "Enpal Power Phase B", "power", "W")
 @@ "Voltage.Phase.C" :> EnpalSensorConfig("mdi:lightning-bolt", "Enpal Voltage Phase C", "voltage", "V")
 @@ "Current.Phase.C" :> EnpalSensorConfig("mdi:lightning-bolt", "Enpal Ampere Phase C", "current", "A")
 @@ "Power.AC.Phase.C" :> EnpalSensorConfig("mdi:lightning-bolt", "Enpal Power Phase C", "power", "W")
 @@ "Current.String.1" :> EnpalSensorConfig("mdi:sun-angle", "Enpal Current String 1", "current", "A")
 @@ "Voltage.String.1" :> EnpalSensorConfig("mdi:sun-angle", "Enpal Voltage String 1", "voltage", "V")
 @@ "Power.DC.String.1" :> EnpalSensorConfig("mdi:sun-angle", "Enpal Power String 1", "power", "W")
 @@ "Current.String.2" :> EnpalSensorConfig("mdi:sun-angle", "Enpal Current String 2", "current", "A")
 @@ "Voltage.String.2" :> EnpalSensorConfig("mdi:sun-angle", "Enpal Voltage String 2", "voltage", "V")
 @@ "Power.DC.String.2" :> EnpalSensorConfig("mdi:sun-angle", "Enpal Power String 2", "power", "W")
 @@ "Power.Battery.Charge.Discharge" :> EnpalSensorConfig("mdi:battery-charging", "Enpal Battery Power", "power", "W")
 @@ "Energy.Battery.Charge.Level" :> EnpalSensorConfig("mdi:battery", "Enpal Battery Percent", "battery", "%")
 @@ "Energy.Battery.Charge.Day" :> EnpalSensorConfig("mdi:battery-arrow-up", "Enpal Battery Charge Day", "energy", "kWh")
 @@ "Energy.Battery.Discharge.Day" :> EnpalSensorConfig("mdi:battery-arrow-down", "Enpal Battery Discharge Day", "energy", "kWh")
 @@ "Energy.Battery.Charge.Total.Unit.1" :> EnpalSensorConfig("mdi:battery-arrow-up", "Enpal Battery Charge Total", "energy", "kWh")
 @@ "Energy.Battery.Discharge.Total.Unit.1" :> EnpalSensorConfig("mdi:battery-arrow-down", "Enpal Battery Discharge Total", "energy", "kWh")
 @@ "State.Wallbox.Connector.1.Charge" :> EnpalSensorConfig("mdi:ev-station", "Wallbox Charge Percent", "battery", "%")
 @@ "Power.Wallbox.Connector.1.Charging" :> EnpalSensorConfig("mdi:ev-station", "Wallbox Charging Power", "power", "W")
 @@ "Energy.Wallbox.Connector.1.Charged.Total" :> EnpalSensorConfig("mdi:ev-station", "Wallbox Charging Total", "energy", "Wh")

(***************************************************************************)
(* EnpalSensor.__init__                                                     *)
(***************************************************************************)
UniqueId(measurement, field) == "enpal_" \o measurement \o "_" \o field

EnpalSensor(field, measurement, icon, name, ip, port, token, device_class, unit) ==
    [ field |-> field,
      measurement |-> measurement,
      ip |-> ip,
      port |-> port,
      token |-> token,
      enpal_device_class |-> device_class,
      unit |-> unit,
      attr_icon |-> icon,
      attr_name |-> name,
      attr_unique_id |-> UniqueId(measurement, field),
      attr_extra_state_attributes |-> << >>,
      \* not assigned by __init__: the values a SensorEntity starts with
      attr_native_value |-> None,
      attr_device_class |-> "None",
      attr_native_unit_of_measurement |-> "None",
      attr_state_class |-> "None",
      state |-> "None" ]

(***************************************************************************)
(* Configuration (hass.data[DOMAIN][entry_id] and config_entry.options)     *)
(***************************************************************************)
RequiredKeys == {"enpal_host_ip", "enpal_host_port", "enpal_token"}

EntryData ==
    "enpal_host_ip" :> "192.168.178.2" @@ "enpal_host_port" :> "8086" @@ "enpal_token" :> "tokenA"

Restrict(f, keys) == [k \in keys |-> f[k]]

\* the configuration bags an entry can be loaded with: complete, or one key short
DataBags == {EntryData} \cup {Restrict(EntryData, RequiredKeys \ {k}) : k \in RequiredKeys}

\* the option bags: none, or a replaced token
OptionBags == {<< >>, "enpal_token" :> "tokenB"}

\* dict.update
DictUpdate(config, other) ==
    [k \in DOMAIN config \cup DOMAIN other |->
        IF k \in DOMAIN other THEN other[k] ELSE config[k]]

\* lines 88-89: options, when there are any, are merged over the stored mapping
MergedConfig(config, opts) ==
    IF DOMAIN opts # {} THEN DictUpdate(config, opts) ELSE config

\* lines 91-99: the first missing key, "" when none is missing
MissingKeyAlways(config) ==
    IF "enpal_host_ip" \notin DOMAIN config THEN "enpal_host_ip"
    ELSE IF "enpal_host_port" \notin DOMAIN config THEN "enpal_host_port"
    ELSE ""

MissingKey(config) ==
    IF "enpal_host_ip" \notin DOMAIN config THEN "enpal_host_ip"
    ELSE IF "enpal_host_port" \notin DOMAIN config THEN "enpal_host_port"
    ELSE IF "enpal_token" \notin DOMAIN config THEN "enpal_token"
    ELSE ""

(***************************************************************************)
(* The discovery query (get_tables) and the loop over its result            *)
(***************************************************************************)
QueryFields == {"Power.DC.Total", "Energy.Consumption.Total.Day", "Percent.Storage.Level"}
Measurements == {"inverter", "powerSensor"}

\* one table of the result: the values of its first record
Table(field, measurement) == [field |-> field, measurement |-> measurement]

AllTables == {Table(f, m) : f \in QueryFields, m \in Measurements}

SeqsUpTo(S, n) == UNION {[1..k -> S] : k \in 0..n}

\* what get_tables can return
QueryResults == SeqsUpTo(AllTables, MaxTables)

\* line 110, with the duplicate check left out
AlreadySeenNever(field, encountered_fields) == FALSE

\* line 110
AlreadySeen(field, encountered_fields) == field \in encountered_fields

\* line 106 iterating from the back
TablesReversed(tables) == [i \in 1..Len(tables) |-> tables[Len(tables) + 1 - i]]

\* line 106: the order in which the loop visits the tables
TablesInOrder(tables) == tables

\* line 123
NewSensor(field, measurement, config) ==
    LET field_config == FIELD_MAP[field] IN
    EnpalSensor(field, measurement, field_config.icon, field_config.name,
                config["enpal_host_ip"], config["enpal_host_port"], config["enpal_token"],
                field_config.device_class, field_config.unit)

\* lines 105-124: the loop from table i on; returns to_add
RECURSIVE DiscoverFrom(_, _, _, _, _)
DiscoverFrom(tables, i, encountered_fields, to_add, config) ==
    IF i > Len(tables) THEN to_add
    ELSE
        LET field == tables[i].field
            measurement == tables[i].measurement
        IN  IF AlreadySeen(field, encountered_fields)
            THEN DiscoverFrom(tables, i + 1, encountered_fields, to_add, config)
            ELSE IF field \notin DOMAIN FIELD_MAP
            THEN DiscoverFrom(tables, i + 1, encountered_fields \cup {field}, to_add, config)
            ELSE DiscoverFrom(tables, i + 1, encountered_fields \cup {field},
                              Append(to_add, NewSensor(field, measurement, config)), config)

Discover(tables, config) == DiscoverFrom(TablesInOrder(tables), 1, {}, << >>, config)

(***************************************************************************)
(* The entity registry of the host                                          *)
(***************************************************************************)
RegistryEntry(entry_id, unique_id) == [config_entry_id |-> entry_id, unique_id |-> unique_id]

\* async_entries_for_config_entry
EntriesForConfigEntry(reg, entry_id) ==
    {r \in BagToSet(reg) : r.config_entry_id = entry_id}

\* lines 130-131 with the loop body never run
RemoveNone(reg, entries) == reg

\* lines 130-131: every listed entry is removed
RemoveEntries(reg, entries) ==
    LET keep == {r \in BagToSet(reg) : r \notin entries}
    IN  [r \in keep |-> reg[r]]

\* the host registers one entry per entity handed to async_add_entities
RECURSIVE RegisterAll(_, _, _)
RegisterAll(reg, entry_id, to_add) ==
    IF to_add = << >> THEN reg
    ELSE RegisterAll(reg (+) SetToBag({RegistryEntry(entry_id, Head(to_add).attr_unique_id)}),
                     entry_id, Tail(to_add))

\* an entity of another configuration entry, registered before this one is set up
ForeignEntry == RegistryEntry("other_entry", UniqueId("meter", "Power.DC.Total"))

\* no async_update of the entity has completed yet
NoResult == [kind |-> "none", exc |-> "", raised |-> FALSE, done |-> FALSE, rows |-> 0,
             keys_before |-> {}]

NoRun == [outcome |-> "none", queried |-> FALSE, add_calls |-> 0, removed |-> 0,
          tables |-> << >>]

(***************************************************************************)
(* async_setup_entry                                                        *)
(***************************************************************************)
\* The host loads an entry: its component stores the entry's data under
\* hass.data[DOMAIN][entry_id] and the platform setup is about to be called.
LoadEntry(e) ==
    /\ setupPc[e] \in {"unloaded", "done"}
    /\ \E data \in DataBags, opts \in OptionBags :
        /\ hassData' = [hassData EXCEPT ![e] = data]
        /\ options' = [options EXCEPT ![e] = opts]
    /\ setupPc' = [setupPc EXCEPT ![e] = "loaded"]
    /\ setupRun' = [setupRun EXCEPT ![e] = NoRun]
    /\ UNCHANGED <<registry, entities, updateVars, tz>>

\* lines 87-103: merge the options, check the keys, start the query
SetupBegin(e) ==
    /\ setupPc[e] = "loaded"
    /\ LET config == MergedConfig(hassData[e], options[e]) IN
        /\ hassData' = [hassData EXCEPT ![e] = config]
        /\ IF MissingKey(config) # ""
           THEN /\ setupPc' = [setupPc EXCEPT ![e] = "done"]
                /\ setupRun' = [setupRun EXCEPT ![e].outcome = "aborted"]
           ELSE /\ setupPc' = [setupPc EXCEPT ![e] = "querying"]
                /\ setupRun' = [setupRun EXCEPT ![e].outcome = "running", ![e].queried = TRUE]
    /\ UNCHANGED <<options, registry, entities, updateVars, tz>>

\* line 103: the query raises; the exception leaves async_setup_entry
SetupQueryRaises(e) ==
    /\ setupPc[e] = "querying"
    /\ setupPc' = [setupPc EXCEPT ![e] = "done"]
    /\ setupRun' = [setupRun EXCEPT ![e].outcome = "raised"]
    /\ UNCHANGED <<hassData, options, registry, entities, updateVars, tz>>

\* lines 103-133: the query returns tables; loop, registry reset, async_add_entities
SetupResume(e) ==
    /\ setupPc[e] = "querying"
    /\ \E tables \in QueryResults :
        LET to_add == Discover(tables, hassData[e])
            entries == EntriesForConfigEntry(registry, e)
        IN  /\ registry' = RegisterAll(RemoveEntries(registry, entries), e, to_add)
            /\ entities' = [entities EXCEPT ![e] = to_add]
            /\ updPc' = [updPc EXCEPT ![e] = [i \in DOMAIN to_add |-> "idle"]]
            /\ result' = [result EXCEPT ![e] = [i \in DOMAIN to_add |-> NoResult]]
            /\ setupRun' = [setupRun EXCEPT ![e].outcome = "added",
                                            ![e].add_calls = @ + 1,
                                            ![e].removed = BagCardinality(registry)
                                                - BagCardinality(RemoveEntries(registry, entries)),
                                            ![e].tables = tables]
    /\ setupPc' = [setupPc EXCEPT ![e] = "done"]
    /\ UNCHANGED <<hassData, options, clock, tz>>

SetupInit ==
    /\ hassData = [e \in Entries |-> << >>]
    /\ options = [e \in Entries |-> << >>]
    /\ setupPc = [e \in Entries |-> "unloaded"]
    /\ setupRun = [e \in Entries |-> NoRun]
    /\ registry = SetToBag({ForeignEntry})
    /\ entities = [e \in Entries |-> << >>]
    /\ updPc = [e \in Entries |-> << >>]
    /\ result = [e \in Entries |-> << >>]
    /\ clock = 0
    /\ tz = 0

Init == SetupInit

Next ==
    \E e \in Entries :
        \/ LoadEntry(e)
        \/ SetupBegin(e)
        \/ SetupQueryRaises(e)
        \/ SetupResume(e)

Spec == Init /\ [][Next]_vars

(***************************************************************************)
(* Time                                                                     *)
(***************************************************************************)
\* datetime.now(): the host's local time
Now(utc, offset) == utc + offset

\* .replace(hour=0, minute=0, second=0, microsecond=0)
Midnight(t) == (t \div TicksPerDay) * TicksPerDay

\* lines 181, 184 with datetime.now() in place of datetime.utcnow()
LastResetLocal(utc, offset) == Midnight(Now(utc, offset))

\* lines 181, 184: datetime.utcnow().replace(hour=0, ...)
LastReset(utc, offset) == Midnight(utc)

(***************************************************************************)
(* The point query of async_update and the conversion of its value          *)
(***************************************************************************)
Num(milli) == [t |-> "num", milli |-> milli]
Text == [t |-> "text", milli |-> 0]

\* _value of the samples the database can hold for a field, in thousandths
\* (a storage level is a percentage; no value is a tie of round() that a
\* binary float cannot hold exactly)
RawValues(field) ==
    IF field = "Percent.Storage.Level" THEN {9990, 19500, 20000, 100000}
    ELSE {123456}

Samples(field) == {Num(n) : n \in RawValues(field)} \cup {Text}

\* what query_api.query can return: the query keeps one measurement and one
\* field and takes last(), so the list holds no table or one, given here by the
\* _value of its first record
PointResults(field) == {<< >>} \cup {<<v>> : v \in Samples(field)}

\* what the await of line 165 can end with
Outcomes(field) ==
    {[kind |-> "tables", tables |-> t] : t \in PointResults(field)}
    \cup {[kind |-> "raise", tables |-> << >>], [kind |-> "cancel", tables |-> << >>]}

\* lines 167-169 with no default for an empty result
QueryValueNoDefault(tables) == IF tables # << >> THEN tables[1] ELSE Text

\* lines 167-169
QueryValue(tables) == IF tables # << >> THEN tables[1] ELSE Num(0)

\* round(float(value), 2), from thousandths to hundredths
Round2(milli) ==
    LET q == milli \div 10
        r == milli % 10
    IN  IF r < 5 THEN q
        ELSE IF r > 5 THEN q + 1
        ELSE IF q % 2 = 0 THEN q ELSE q + 1

\* the exception the try block raises for an outcome of the query, "" for none
Raised(outcome) ==
    IF outcome.kind = "raise" THEN "ConnectionError"
    ELSE IF outcome.kind = "cancel" THEN "CancelledError"
    ELSE IF QueryValue(outcome.tables).t # "num" THEN "ValueError"
    ELSE ""

\* line 211 as a bare except
IsExceptionOrBase(exc) == TRUE

\* line 211: except Exception; asyncio.CancelledError derives from BaseException
IsException(exc) == exc # "CancelledError"

(***************************************************************************)
(* EnpalSensor.async_update                                                 *)
(***************************************************************************)
\* d[k] = v
Put(d, k, v) == [x \in DOMAIN d \cup {k} |-> IF x = k THEN v ELSE d[x]]

EnergyUnits == {"kWh", "Wh"}

\* lines 174, 180-185
StateClass(unit) == IF unit \in EnergyUnits THEN "total_increasing" ELSE "measurement"

LegacyField == "Percent.Storage.Level"

TierName == <<"10", "20", "30", "40", "50", "60", "70", "80", "90">>

\* lines 190-207: the tiers k..9 applied in turn; v in hundredths
RECURSIVE Tiers(_, _, _)
Tiers(v, icon, k) ==
    IF k > 9 THEN icon
    ELSE Tiers(v,
               IF v <= (10 * k + 9) * 100 /\ v >= 10 * k * 100
               THEN "mdi:battery-" \o TierName[k] ELSE icon,
               k + 1)

\* lines 188-209
BatteryIcon(v, icon) ==
    LET outline == IF v >= 1000 THEN "mdi:battery-outline" ELSE icon
        tier == Tiers(v, outline, 1)
    IN  IF v = 10000 THEN "mdi:battery" ELSE tier

\* lines 175-177, 180-185: the attribute mapping after a successful update
TryAttributes(self, utc, offset) ==
    LET a1 == Put(self.attr_extra_state_attributes, "last_check", Now(utc, offset))
        a2 == Put(a1, "field", self.field)
        a3 == Put(a2, "measurement", self.measurement)
    IN  IF self.unit \in EnergyUnits
        THEN Put(a3, "last_reset", LastReset(utc, offset))
        ELSE a3

\* lines 167-209: the try block after the query has returned a usable value
TryBody(self, tables, utc, offset) ==
    LET v == Round2(QueryValue(tables).milli) IN
    [self EXCEPT
        !.attr_native_value = Some(v),
        !.attr_device_class = self.enpal_device_class,
        !.attr_native_unit_of_measurement = self.unit,
        !.attr_state_class = StateClass(self.unit),
        !.attr_extra_state_attributes = TryAttributes(self, utc, offset),
        !.attr_icon = IF self.field = LegacyField THEN BatteryIcon(v, self.attr_icon)
                      ELSE self.attr_icon]

\* lines 212-215 with the attribute mapping replaced, not updated
ExceptBodyClears(self, utc, offset) ==
    [self EXCEPT
        !.state = "Error",
        !.attr_native_value = None,
        !.attr_extra_state_attributes = Put(<< >>, "last_check", Now(utc, offset))]

\* lines 212-215 with line 214 missing
ExceptBodyKeepsValue(self, utc, offset) ==
    [self EXCEPT
        !.state = "Error",
        !.attr_extra_state_attributes = Put(@, "last_check", Now(utc, offset))]

\* lines 212-215
ExceptBody(self, utc, offset) ==
    [self EXCEPT
        !.state = "Error",
        !.attr_native_value = None,
        !.attr_extra_state_attributes = Put(@, "last_check", Now(utc, offset))]

\* lines 155-215 from the await on: the entity after the query ended with outcome
AfterQuery(self, outcome, utc, offset) ==
    LET exc == Raised(outcome) IN
    IF exc = "" THEN TryBody(self, outcome.tables, utc, offset)
    ELSE IF IsException(exc) THEN ExceptBody(self, utc, offset)
    ELSE self

\* lines 155-165: the client and the query are built, the query is handed to the
\* executor and the task waits for it
UpdateStart(e, i) ==
    /\ i \in DOMAIN entities[e]
    /\ updPc[e][i] = "idle"
    /\ updPc' = [updPc EXCEPT ![e][i] = "querying"]
    /\ UNCHANGED <<setupVars, entities, result, clock, tz>>

\* lines 165-215: the await ends (a result, an exception or a cancellation) and
\* async_update runs to its end
UpdateResume(e, i) ==
    /\ i \in DOMAIN entities[e]
    /\ updPc[e][i] = "querying"
    /\ \E outcome \in Outcomes(entities[e][i].field) :
        LET self == entities[e][i]
            exc == Raised(outcome)
        IN  /\ entities' = [entities EXCEPT ![e][i] = AfterQuery(self, outcome, clock, tz)]
            /\ result' = [result EXCEPT ![e][i] =
                            [kind |-> outcome.kind,
                             exc |-> exc,
                             raised |-> exc # "" /\ ~IsException(exc),
                             done |-> TRUE,
                             rows |-> Len(outcome.tables),
                             keys_before |-> DOMAIN self.attr_extra_state_attributes]]
    /\ updPc' = [updPc EXCEPT ![e][i] = "idle"]
    /\ UNCHANGED <<setupVars, clock, tz>>

\* time passes
Tick ==
    /\ clock < MaxClock
    /\ clock' = clock + 1
    /\ UNCHANGED <<setupVars, entities, updPc, result, tz>>

\* the arguments entities are constructed with: as line 123 does for three
\* fields of FIELD_MAP, and for the legacy storage field of lines 187-209
Connection == EntryData

SensorChoices ==
    {NewSensor(f, "inverter", Connection) :
        f \in {"Power.DC.Total", "Energy.Consumption.Total.Day",
               "Energy.Wallbox.Connector.1.Charged.Total"}}
    \cup {EnpalSensor("Percent.Storage.Level", "inverter", "mdi:battery",
                      "Enpal Battery Percent", Connection["enpal_host_ip"],
                      Connection["enpal_host_port"], Connection["enpal_token"],
                      "battery", "%")}

\* two entities of one entry have been added; none has been updated yet
SensorInit ==
    /\ hassData = [e \in Entries |-> Connection]
    /\ options = [e \in Entries |-> << >>]
    /\ setupPc = [e \in Entries |-> "done"]
    /\ setupRun = [e \in Entries |-> NoRun]
    /\ \E s1 \in SensorChoices :
        entities = [e \in Entries |-> <<s1, NewSensor("Power.House.Total", "powerSensor", Connection)>>]
    /\ registry = RegisterAll(SetToBag({ForeignEntry}), "entry1", entities["entry1"])
    /\ updPc = [e \in Entries |-> [i \in 1..2 |-> "idle"]]
    /\ result = [e \in Entries |-> [i \in 1..2 |-> NoResult]]
    /\ clock = 0
    /\ tz \in {0, 1}

SensorNext ==
    \/ \E e \in Entries : \E i \in 1..2 : UpdateStart(e, i)
    \/ \E e \in Entries : \E i \in 1..2 : UpdateResume(e, i)
    \/ Tick

SpecSensor == SensorInit /\ [][SensorNext]_vars

(***************************************************************************)
(* Properties of field discovery (checked under Spec)                       *)
(***************************************************************************)
Added(e) == setupRun[e].outcome = "added"

FieldsOf(tables) == {tables[j].field : j \in DOMAIN tables}

EntitiesWithField(e, f) == {i \in DOMAIN entities[e] : entities[e][i].field = f}

\* the first table of the result that carries field f
FirstWith(tables, f) ==
    CHOOSE j \in DOMAIN tables :
        /\ tables[j].field = f
        /\ \A k \in DOMAIN tables : tables[k].field = f => j <= k

\* C1: the list handed to async_add_entities holds exactly one entity for every
\* distinct field of the query result that is a key of FIELD_MAP, and no entity
\* for any other field, however many tables carry the field.
C1_OneEntityPerKnownField ==
    \A e \in Entries :
        Added(e) =>
            /\ \A f \in FieldsOf(setupRun[e].tables) :
                Cardinality(EntitiesWithField(e, f))
                    = IF f \in DOMAIN FIELD_MAP THEN 1 ELSE 0
            /\ \A i \in DOMAIN entities[e] :
                entities[e][i].field \in FieldsOf(setupRun[e].tables)

\* a run whose result named a known field twice and an unknown field once
C1_Witness ==
    \E e \in Entries :
        /\ Added(e)
        /\ LET t == setupRun[e].tables IN
            /\ Len(t) = 3
            /\ t[1].field = t[3].field
            /\ t[1].field \in DOMAIN FIELD_MAP
            /\ t[2].field \notin DOMAIN FIELD_MAP
        /\ Len(entities[e]) = 1

\* C2: when a field comes under several measurements, its one entity carries the
\* measurement of the first table with that field in query result order; the
\* later tables with the field create no entity and alter none.
C2_FirstMeasurementWins ==
    \A e \in Entries :
        Added(e) =>
            \A i \in DOMAIN entities[e] :
                LET self == entities[e][i]
                    first == setupRun[e].tables[FirstWith(setupRun[e].tables, self.field)]
                IN  /\ self.measurement = first.measurement
                    /\ self.attr_unique_id = UniqueId(first.measurement, self.field)
                    /\ EntitiesWithField(e, self.field) = {i}

\* a run whose result carried one known field under two measurements
C2_Witness ==
    \E e \in Entries :
        /\ Added(e)
        /\ LET t == setupRun[e].tables IN
            /\ Len(t) >= 2
            /\ t[1].field = t[2].field
            /\ t[1].field \in DOMAIN FIELD_MAP
            /\ t[1].measurement = "powerSensor"
            /\ t[2].measurement = "inverter"
        /\ Len(entities[e]) = 1
        /\ entities[e][1].measurement = "powerSensor"

\* the registry entries an entity list stands for
EntriesOf(e, list) == {RegistryEntry(e, list[i].attr_unique_id) : i \in DOMAIN list}

\* C3: the registry entries of an entry are removed before async_add_entities is
\* called, so after any number of discovery runs the registry holds, for the
\* entry, exactly the entities of the latest call of async_add_entities, each
\* unique identifier once; entries of other configuration entries stay.
C3_RegistryHoldsLatestRun ==
    /\ \A e \in Entries :
        /\ EntriesForConfigEntry(registry, e) = EntriesOf(e, entities[e])
        /\ \A r \in EntriesForConfigEntry(registry, e) : registry[r] = 1
        /\ \A i, j \in DOMAIN entities[e] :
            entities[e][i].attr_unique_id = entities[e][j].attr_unique_id => i = j
    /\ ForeignEntry \in BagToSet(registry)
    /\ registry[ForeignEntry] = 1

\* a run that removed the two entities of an earlier run and added one
C3_Witness ==
    \E e \in Entries :
        /\ Added(e)
        /\ setupRun[e].removed = 2
        /\ Len(entities[e]) = 1
        /\ EntriesForConfigEntry(registry, e) = EntriesOf(e, entities[e])

Incomplete(config) == \E k \in RequiredKeys : k \notin DOMAIN config

\* C4: when enpal_host_ip, enpal_host_port or enpal_token is missing from the
\* merged configuration, async_setup_entry aborts: no query is issued,
\* async_add_entities is not called, and the step that aborts leaves the registry
\* and the entities as they were.
C4_AbortsOnMissingKey ==
    /\ [](\A e \in Entries :
            (setupPc[e] \in {"querying", "done"} /\ Incomplete(hassData[e])) =>
                /\ setupPc[e] = "done"
                /\ setupRun[e].outcome = "aborted"
                /\ ~setupRun[e].queried
                /\ setupRun[e].add_calls = 0)
    /\ [][\A e \in Entries :
            (setupPc[e] = "loaded" /\ Incomplete(hassData'[e])) =>
                /\ registry' = registry
                /\ entities' = entities]_vars

\* an aborted run of an entry whose earlier run had registered entities
C4_Witness ==
    \E e \in Entries :
        /\ setupRun[e].outcome = "aborted"
        /\ "enpal_token" \notin DOMAIN hassData[e]
        /\ EntriesForConfigEntry(registry, e) # {}

(***************************************************************************)
(* Properties of the entity updater (checked under SpecSensor)              *)
(***************************************************************************)
Ids == {<<e, i>> : e \in Entries, i \in 1..2}

Ent(id) == entities[id[1]][id[2]]
Res(id) == result[id[1]][id[2]]
Attrs(id) == Ent(id).attr_extra_state_attributes

\* the step in which the async_update of entity id runs to its end
Completes(id) ==
    /\ updPc[id[1]][id[2]] = "querying"
    /\ updPc'[id[1]][id[2]] = "idle"

Failed(id) == Res(id).done /\ Res(id).exc \in {"ConnectionError", "ValueError"}
Succeeded(id) == Res(id).done /\ Res(id).exc = ""

\* C5: when the query or the conversion raises an exception, async_update
\* returns normally, the current value is None afterwards, and last_check holds
\* the time of this call.
C5_FailureDegradesToNone ==
    /\ [](\A id \in Ids :
            Failed(id) =>
                /\ ~Res(id).raised
                /\ Ent(id).attr_native_value = None
                /\ "last_check" \in DOMAIN Attrs(id))
    /\ [][\A id \in Ids :
            (Completes(id) /\ Failed(id)') =>
                Attrs(id)'["last_check"] = Now(clock, tz)]_vars

\* a failed conversion after an earlier successful update, at a later instant
C5_Witness ==
    \E id \in Ids :
        /\ Res(id).exc = "ValueError"
        /\ "field" \in Res(id).keys_before
        /\ Ent(id).attr_native_value = None
        /\ Attrs(id)["last_check"] = Now(MaxClock, tz)

\* C6: when the point query returns no row, the update succeeds and the stored
\* current value is 0.0, not None.
C6_NoRowStoresZero ==
    \A id \in Ids :
        (Res(id).done /\ Res(id).kind = "tables" /\ Res(id).rows = 0) =>
            /\ Res(id).exc = ""
            /\ ~Res(id).raised
            /\ Ent(id).attr_native_value = Some(0)
            /\ Ent(id).attr_state_class # "None"

\* an empty result after an earlier update of the entity had failed
C6_Witness ==
    \E id \in Ids :
        /\ Res(id).done /\ Res(id).kind = "tables" /\ Res(id).rows = 0
        /\ Ent(id).state = "Error"
        /\ Ent(id).attr_native_value = Some(0)

\* C7: after a successful update of an entity whose unit is kWh or Wh the state
\* class is total_increasing and last_reset is 00:00:00 UTC of the day of the
\* update; with any other unit the state class is measurement.
C7_EnergyUnitsResetDaily ==
    /\ [](\A id \in Ids :
            Succeeded(id) =>
                IF Ent(id).unit \in {"kWh", "Wh"}
                THEN /\ Ent(id).attr_state_class = "total_increasing"
                     /\ "last_reset" \in DOMAIN Attrs(id)
                ELSE Ent(id).attr_state_class = "measurement")
    /\ [][\A id \in Ids :
            (Completes(id) /\ Succeeded(id)' /\ Ent(id).unit \in {"kWh", "Wh"}) =>
                /\ Attrs(id)'["last_reset"] = (clock \div TicksPerDay) * TicksPerDay
                /\ Attrs(id)'["last_reset"] <= clock
                /\ clock < Attrs(id)'["last_reset"] + TicksPerDay]_vars

\* a Wh entity updated on the second day, on a host east of UTC
C7_Witness ==
    \E id \in Ids :
        /\ Succeeded(id)
        /\ Ent(id).unit = "Wh"
        /\ Ent(id).attr_state_class = "total_increasing"
        /\ Attrs(id)["last_reset"] = TicksPerDay
        /\ tz = 1

OwnNames(id) ==
    /\ {"field", "measurement"} \subseteq DOMAIN Attrs(id)
    /\ Attrs(id)["field"] = Ent(id).field
    /\ Attrs(id)["measurement"] = Ent(id).measurement

\* C8 as stated: after every completed update, successful or failed, the
\* attribute mapping holds last_check, field and measurement (the entity's own
\* names) and has lost no key.
C8_Original ==
    \A id \in Ids :
        (Res(id).done /\ ~Res(id).raised) =>
            /\ "last_check" \in DOMAIN Attrs(id)
            /\ OwnNames(id)
            /\ Res(id).keys_before \subseteq DOMAIN Attrs(id)

\* C8 as amended: after every completed update the attribute mapping holds
\* last_check and has lost no key; it holds field and measurement (the entity's
\* own names) when this update or an earlier one of the entity succeeded.
C8_AttributesAccumulate ==
    \A id \in Ids :
        (Res(id).done /\ ~Res(id).raised) =>
            /\ "last_check" \in DOMAIN Attrs(id)
            /\ Res(id).keys_before \subseteq DOMAIN Attrs(id)
            /\ (Res(id).exc = "" \/ "field" \in Res(id).keys_before) => OwnNames(id)

\* a failed update of an energy entity that had been updated successfully
C8_Witness ==
    \E id \in Ids :
        /\ Res(id).exc = "ConnectionError"
        /\ Res(id).keys_before = {"last_check", "field", "measurement", "last_reset"}
        /\ DOMAIN Attrs(id) = Res(id).keys_before
        /\ OwnNames(id)

\* C9: for the legacy storage field, a stored value v with 10 <= v < 100 gives
\* the icon mdi:battery-N with N = 10 * floor(v / 10), and v = 100 gives
\* mdi:battery.
C9_TenPercentBuckets ==
    \A id \in Ids :
        (Succeeded(id) /\ Ent(id).field = "Percent.Storage.Level") =>
            LET v == Ent(id).attr_native_value[1] IN
            /\ (1000 <= v /\ v < 10000) =>
                    Ent(id).attr_icon = "mdi:battery-" \o TierName[v \div 1000]
            /\ v = 10000 => Ent(id).attr_icon = "mdi:battery"

\* C10: an update cancelled (or timed out by the host) while its query is in
\* flight leaves the entity as it was, and no step changes an entity other than
\* the end of that entity's own update.
C10_CancelLeavesState ==
    [][\A id \in Ids :
        Ent(id)' # Ent(id) =>
            /\ Completes(id)
            /\ Res(id)'.exc # "CancelledError"]_vars

\* a cancelled update of an entity that holds a value, while the other entity's
\* query is in flight
C10_Witness ==
    \E id \in Ids, other \in Ids :
        /\ other # id
        /\ Res(id).exc = "CancelledError"
        /\ Res(id).raised
        /\ Ent(id).attr_native_value # None
        /\ updPc[other[1]][other[2]] = "querying"

====
